---- MODULE Spec2Model ----
(***************************************************************************)
(* PendingGame (src/server/pendinggame.js): the pre-match lobby session.   *)
(* The session's fields are the variables; every method that mutates the   *)
(* session is one action, run to completion (the server is single-threaded *)
(* JavaScript); getSummary is an operator on the state.                    *)
(***************************************************************************)
EXTENDS Integers, Sequences, FiniteSets, TLC

VARIABLES
    owner,            \* this.owner.username (the owner account)
    players,          \* this.players, in insertion (key) order
    spectators,       \* this.spectators, in insertion (key) order
    password,         \* this.password: None or Some(md5 hex digest)
    started,          \* this.started (undefined is modelled as FALSE)
    allowSpectators,  \* this.allowSpectators
    messages,         \* this.gameChat.messages
    decks,            \* the deck objects handed to selectDeck: their selected flag
    created,          \* newGame has been called
    last              \* the last call: operation, return value, callback argument

vars == <<owner, players, spectators, password, started, allowSpectators,
          messages, decks, created, last>>

----------------------------------------------------------------------------
(* Bounds *)

\* The chat log is unbounded in the program; appending operations are enabled
\* only while the log is shorter than this.
MaxMessages == 2

----------------------------------------------------------------------------
(* Values *)

None == <<>>
Some(x) == <<x>>

Undefined == "undefined"
TypeError == "TypeError"
IncorrectPassword == "Incorrect game password"
JoinNotPermitted == "Join not permitted"

\* Accounts: username -> blockList.  Block lists hold lower-case names.
Users == {"alice", "bob", "Carol"}

BlockList(u) ==
    CASE u = "bob"   -> {"carol"}
      [] u = "Carol" -> {"alice"}
      [] OTHER       -> {}

\* The account that creates the session; the others come to own it by succession
Creators == {"alice"}

Role(u) == IF u = "alice" THEN "admin" ELSE "user"

\* String.prototype.toLowerCase on the usernames in use
toLowerCase(s) ==
    CASE s = "Carol" -> "carol"
      [] OTHER       -> s

\* socket id of the account's connection
ConnId(u) == "conn-" \o toLowerCase(u)

\* Passwords given at creation: undefined, the empty string (falsy: no password
\* is set) and a text; candidates given to join and watch: undefined, the text
\* and another text
NoPw == "undefined-pw"
Passwords == {NoPw, "", "secret"}
Candidates == {NoPw, "secret", "wrong"}

\* crypto.createHash('md5').update(p).digest('hex') on the texts in use
md5(p) ==
    CASE p = ""       -> "d41d8cd98f00b204e9800998ecf8427e"
      [] p = "secret" -> "5ebe2294ecd0e0f08eab7690d2a6ee69"
      [] p = "wrong"  -> "2bda2998d9b0ee197da142a0447f6725"

\* Deck values supplied by the caller: {faction, agenda, name, status}
DeckIds == {"d1", "d2"}
DeckName(d) == IF d = "d1" THEN "Wolves" ELSE "Lions"
DeckStatus(d) == IF d = "d1" THEN "valid" ELSE "invalid"
DeckFaction(d) == IF d = "d1" THEN "stark" ELSE "lannister"
DeckAgenda(d) == IF d = "d1" THEN Some("fealty") ELSE None

ChatTexts == {"hi"}

----------------------------------------------------------------------------
(* Name-keyed collections in insertion order *)

Has(coll, name) == \E i \in DOMAIN coll : coll[i].name = name

IndexOf(coll, name) == CHOOSE i \in DOMAIN coll : coll[i].name = name

Get(coll, name) == coll[IndexOf(coll, name)]

\* coll[name] = entry: an existing key keeps its position
Put(coll, entry) ==
    IF Has(coll, entry.name)
    THEN [coll EXCEPT ![IndexOf(coll, entry.name)] = entry]
    ELSE Append(coll, entry)

\* delete coll[name]
Delete(coll, name) == SelectSeq(coll, LAMBDA e : e.name # name)

Names(coll) == {coll[i].name : i \in DOMAIN coll}

\* keys of getPlayersAndSpectators()
MemberNames == Names(players) \cup Names(spectators)

IsMember_OrOwner(name) ==
    Has(players, name) \/ Has(spectators, name) \/ name = owner

\* getPlayerOrSpectator(name) is truthy
IsMember(name) == Has(players, name) \/ Has(spectators, name)

----------------------------------------------------------------------------
(* Helpers of the class *)

addMessage_Prepend(log, template, args) ==
    <<[template |-> template, args |-> args]>> \o log

\* addMessage(template, ...args)
addMessage(log, template, args) == Append(log, [template |-> template, args |-> args])

PlayerEntry_OwnerAlways(user, own) ==
    [id |-> ConnId(user), name |-> user, owner |-> TRUE,
     left |-> FALSE, deck |-> None, faction |-> None, agenda |-> None,
     argType |-> FALSE]

\* the entry addPlayer stores under user.username
PlayerEntry(user, own) ==
    [id |-> ConnId(user), name |-> user, owner |-> (own = user),
     left |-> FALSE, deck |-> None, faction |-> None, agenda |-> None,
     argType |-> FALSE]

addPlayer(ps, user, own) == Put(ps, PlayerEntry(user, own))

addSpectator(ss, user) ==
    Put(ss, [id |-> ConnId(user), name |-> user, argType |-> FALSE])

isUserBlocked(user) == toLowerCase(user) \in BlockList(owner)

isOwner(ps, name) == Has(ps, name) /\ Get(ps, name).owner

removeAndResetOwner_NoPromotion(ps, own, name) ==
    [players |-> ps, owner |-> own]

removeAndResetOwner_FlagOnly(ps, own, name) ==
    IF isOwner(ps, name)
    THEN LET others == SelectSeq(ps, LAMBDA p : p.name # name)
         IN  IF Len(others) > 0
             THEN [players |-> Put(ps, [others[1] EXCEPT !.owner = TRUE]),
                   owner   |-> own]
             ELSE [players |-> ps, owner |-> own]
    ELSE [players |-> ps, owner |-> own]

\* The players and the owner after removeAndResetOwner(name)
removeAndResetOwner(ps, own, name) ==
    IF isOwner(ps, name)
    THEN LET others == SelectSeq(ps, LAMBDA p : p.name # name)
         IN  IF Len(others) > 0
             THEN [players |-> Put(ps, [others[1] EXCEPT !.owner = TRUE]),
                   owner   |-> others[1].name]
             ELSE [players |-> ps, owner |-> own]
    ELSE [players |-> ps, owner |-> own]

PasswordCheck_Inverted(pw) ==
    IF password = None THEN "ok"
    ELSE IF pw = NoPw THEN "throw"
    ELSE IF md5(pw) = password[1] THEN "mismatch"
    ELSE "ok"

\* The password check of join and watch (lines 128-132, 149-153): hashing an
\* undefined candidate throws; otherwise the digests are compared
PasswordCheck(pw) ==
    IF password = None THEN "ok"
    ELSE IF pw = NoPw THEN "throw"
    ELSE IF md5(pw) # password[1] THEN "mismatch"
    ELSE "ok"

\* What a call leaves behind for its caller: the value returned (or the error
\* thrown) and the argument its callback was invoked with, if it was
Call(op, ret, cb) == [op |-> op, ret |-> ret, cb |-> cb]

----------------------------------------------------------------------------
(* Construction *)

Init ==
    /\ owner \in Creators
    /\ players = <<>>
    /\ spectators = <<>>
    /\ password = None
    /\ started = FALSE
    /\ allowSpectators \in BOOLEAN
    /\ messages = <<>>
    /\ decks = [d \in DeckIds |-> [selected |-> FALSE]]
    /\ created = FALSE
    /\ last = Call("constructor", Undefined, None)

\* newGame(id, user, password), called once by the lobby with the owner's account
NewGame(pw) ==
    /\ ~created
    /\ created' = TRUE
    /\ password' = IF pw # NoPw /\ pw # "" THEN Some(md5(pw)) ELSE password
    /\ players' = addPlayer(players, owner, owner)
    /\ last' = Call("newGame", Undefined, None)
    /\ UNCHANGED <<owner, spectators, started, allowSpectators, messages, decks>>

----------------------------------------------------------------------------
(* Operations *)

JoinOutcome_NoCapacity(user, pw) ==
    IF started THEN "rejected"
    ELSE IF isUserBlocked(user) THEN "rejected"
    ELSE IF PasswordCheck(pw) = "throw" THEN "throw"
    ELSE IF PasswordCheck(pw) = "mismatch" THEN "mismatch"
    ELSE "added"

JoinOutcome_NoBlock(user, pw) ==
    IF Len(players) = 2 \/ started THEN "rejected"
    ELSE IF PasswordCheck(pw) = "throw" THEN "throw"
    ELSE IF PasswordCheck(pw) = "mismatch" THEN "mismatch"
    ELSE "added"

\* Which exit join(id, user, password) takes
JoinOutcome(user, pw) ==
    IF Len(players) = 2 \/ started THEN "rejected"
    ELSE IF isUserBlocked(user) THEN "rejected"
    ELSE IF PasswordCheck(pw) = "throw" THEN "throw"
    ELSE IF PasswordCheck(pw) = "mismatch" THEN "mismatch"
    ELSE "added"

Join(user, pw) ==
    /\ created
    /\ LET out == JoinOutcome(user, pw) IN
       /\ players' = IF out = "added" THEN addPlayer(players, user, owner) ELSE players
       /\ messages' = IF out = "added"
                        THEN addMessage(messages, "{0} has joined the game", <<user>>)
                        ELSE messages
       /\ last' = Call("join", CASE out = "throw"    -> TypeError
                          [] out = "mismatch" -> IncorrectPassword
                          [] OTHER            -> Undefined,
                        None)
    /\ Len(messages') <= MaxMessages
    /\ UNCHANGED <<owner, spectators, password, started, allowSpectators, decks, created>>

WatchOutcome_NoPermission(user, pw) ==
    IF isUserBlocked(user) THEN "rejected"
    ELSE IF PasswordCheck(pw) = "throw" THEN "throw"
    ELSE IF PasswordCheck(pw) = "mismatch" THEN "mismatch"
    ELSE "added"

\* Which exit watch(id, user, password, callback) takes
WatchOutcome(user, pw) ==
    IF ~allowSpectators THEN "denied"
    ELSE IF isUserBlocked(user) THEN "rejected"
    ELSE IF PasswordCheck(pw) = "throw" THEN "throw"
    ELSE IF PasswordCheck(pw) = "mismatch" THEN "mismatch"
    ELSE "added"

Watch(user, pw) ==
    /\ created
    /\ LET out == WatchOutcome(user, pw) IN
       /\ spectators' = IF out = "added" THEN addSpectator(spectators, user) ELSE spectators
       /\ messages' = IF out = "added"
                        THEN addMessage(messages, "{0} has joined the game as a spectator", <<user>>)
                        ELSE messages
       /\ last' = Call("watch", CASE out = "throw"    -> TypeError
                          [] out = "mismatch" -> IncorrectPassword
                          [] OTHER            -> Undefined,
                        IF out = "denied" THEN Some(JoinNotPermitted) ELSE None)
    /\ Len(messages') <= MaxMessages
    /\ UNCHANGED <<owner, players, password, started, allowSpectators, decks, created>>

\* this.players and this.owner after lines 169-177 of leave, for a name in this.players:
\* a started session flags the entry, an unstarted one hands ownership on and deletes it
LeavePlayer_AlwaysDelete(playerName) ==
    LET reset == removeAndResetOwner(players, owner, playerName)
    IN  [players |-> Delete(reset.players, playerName), owner |-> reset.owner]

LeavePlayer(playerName) ==
    IF started
    THEN [players |-> Put(players, [Get(players, playerName) EXCEPT !.left = TRUE]),
          owner   |-> owner]
    ELSE LET reset == removeAndResetOwner(players, owner, playerName)
         IN  [players |-> Delete(reset.players, playerName), owner |-> reset.owner]

Leave(playerName) ==
    /\ created
    /\ IF ~IsMember(playerName)
       THEN UNCHANGED <<owner, players, spectators, messages>>
       ELSE /\ messages' = IF ~started
                             THEN addMessage(messages, "{0} has left the game", <<playerName>>)
                             ELSE messages
            /\ players' = IF Has(players, playerName)
                            THEN LeavePlayer(playerName).players
                            ELSE players
            /\ owner' = IF Has(players, playerName)
                          THEN LeavePlayer(playerName).owner
                          ELSE owner
            /\ spectators' = Delete(spectators, playerName)
    /\ last' = Call("leave", Undefined, None)
    /\ Len(messages') <= MaxMessages
    /\ UNCHANGED <<password, started, allowSpectators, decks, created>>

Disconnect(playerName) ==
    /\ created
    /\ IF ~IsMember(playerName)
       THEN UNCHANGED <<owner, players, spectators, messages>>
       ELSE LET reset == removeAndResetOwner(players, owner, playerName) IN
            /\ messages' = IF ~started
                             THEN addMessage(messages, "{0} has disconnected", <<playerName>>)
                             ELSE messages
            /\ players' = IF Has(players, playerName) /\ ~started
                            THEN Delete(reset.players, playerName)
                            ELSE players
            /\ owner' = IF Has(players, playerName) /\ ~started THEN reset.owner ELSE owner
            /\ spectators' = IF Has(players, playerName)
                               THEN spectators
                               ELSE Delete(spectators, playerName)
    /\ last' = Call("disconnect", Undefined, None)
    /\ Len(messages') <= MaxMessages
    /\ UNCHANGED <<password, started, allowSpectators, decks, created>>

\* chat: the merged view lets a spectator entry shadow a player entry of the same name
Chat(playerName, message) ==
    /\ created
    /\ IF ~IsMember(playerName)
       THEN UNCHANGED <<players, spectators, messages>>
       ELSE /\ spectators' = IF Has(spectators, playerName)
                               THEN Put(spectators, [Get(spectators, playerName) EXCEPT !.argType = TRUE])
                               ELSE spectators
            /\ players' = IF Has(spectators, playerName)
                            THEN players
                            ELSE Put(players, [Get(players, playerName) EXCEPT !.argType = TRUE])
            /\ messages' = addMessage(messages, "{0} {1}", <<playerName, message>>)
    /\ last' = Call("chat", Undefined, None)
    /\ Len(messages') <= MaxMessages
    /\ UNCHANGED <<owner, password, started, allowSpectators, decks, created>>

\* player.faction after setupFaction(player, deck.faction)
setupFaction(deck) ==
    Some([code |-> DeckFaction(deck), type |-> "faction", strength |-> 0])

\* player.agenda after setupAgenda(player, deck.agenda)
setupAgenda(old, deck) ==
    IF DeckAgenda(deck) = None THEN old ELSE DeckAgenda(deck)

SelectDeck(playerName, deck) ==
    /\ created
    /\ IF ~Has(players, playerName)
       THEN UNCHANGED <<players, decks>>
       ELSE LET player == Get(players, playerName)
                cleared == IF player.deck # None
                           THEN [decks EXCEPT ![player.deck[1]].selected = FALSE]
                           ELSE decks
            IN  /\ decks' = [cleared EXCEPT ![deck].selected = TRUE]
                /\ players' = Put(players, [player EXCEPT
                                    !.deck = Some(deck),
                                    !.faction = setupFaction(deck),
                                    !.agenda = setupAgenda(player.agenda, deck)])
    /\ last' = Call("selectDeck", Undefined, None)
    /\ UNCHANGED <<owner, spectators, password, started, allowSpectators, messages, created>>

\* The lobby marks the session started when the match begins
Start ==
    /\ created
    /\ ~started
    /\ started' = TRUE
    /\ last' = Call("start", Undefined, None)
    /\ UNCHANGED <<owner, players, spectators, password, allowSpectators, messages, decks, created>>

----------------------------------------------------------------------------
(* Summary *)

\* getSummary's argument: a name, or nothing
NoViewer == "no-viewer"
Viewers == Users \cup {NoViewer}

EmptyObj == [f \in {} |-> Undefined]

DeckView_AnyViewer(player, activePlayer) ==
    IF activePlayer = NoViewer THEN EmptyObj
    ELSE IF player.deck # None
         THEN [name     |-> DeckName(player.deck[1]),
               selected |-> decks[player.deck[1]].selected,
               status   |-> DeckStatus(player.deck[1])]
         ELSE EmptyObj

\* the deck entry of a player's summary (lines 268-276, 280)
DeckView(player, activePlayer) ==
    IF activePlayer = NoViewer THEN EmptyObj
    ELSE IF activePlayer = player.name /\ player.deck # None
         THEN [name     |-> DeckName(player.deck[1]),
               selected |-> decks[player.deck[1]].selected,
               status   |-> DeckStatus(player.deck[1])]
         ELSE IF player.deck # None
              THEN [selected |-> decks[player.deck[1]].selected,
                    status   |-> DeckStatus(player.deck[1])]
              ELSE EmptyObj

CodeView_Unstarted(field, code) ==
    IF field # None THEN code ELSE Undefined

\* this.started && field ? code : undefined (lines 279, 281)
CodeView(field, code) ==
    IF started /\ field # None THEN code ELSE Undefined

PlayerSummary(player, activePlayer) ==
    [agenda   |-> CodeView(player.agenda, IF player.agenda # None THEN player.agenda[1] ELSE Undefined),
     deck     |-> DeckView(player, activePlayer),
     faction  |-> CodeView(player.faction, IF player.faction # None THEN player.faction[1].code ELSE Undefined),
     id       |-> player.id,
     left     |-> player.left,
     name     |-> player.name,
     owner    |-> player.owner,
     role     |-> Role(player.name)]

MessagesView_Always(activePlayer) == Some(messages)

\* messages: activePlayer ? this.gameChat.messages : undefined (line 296)
MessagesView(activePlayer) ==
    IF activePlayer # NoViewer THEN Some(messages) ELSE None

\* playersInGame (line 265)
PlayersInGame == SelectSeq(players, LAMBDA p : ~p.left)

getSummary(activePlayer) ==
    [allowSpectators |-> allowSpectators,
     messages        |-> MessagesView(activePlayer),
     needsPassword   |-> password # None,
     owner           |-> owner,
     players         |-> [n \in Names(PlayersInGame) |->
                            PlayerSummary(Get(players, n), activePlayer)],
     started         |-> started,
     spectators      |-> [i \in DOMAIN spectators |->
                            [id |-> spectators[i].id, name |-> spectators[i].name,
                             settings |-> Undefined]]]

\* cardData.name of the faction and agenda values in use
FactionName(code) == IF code = "stark" THEN "House Stark" ELSE "House Lannister"
AgendaName(code) == "Fealty"

\* getSaveState(): reading player.faction.cardData of a Player whose faction was
\* never set throws; otherwise one {agenda, faction, name} per Player
getSaveState ==
    IF \E i \in DOMAIN players : players[i].faction = None
    THEN [fault |-> TRUE, players |-> <<>>]
    ELSE [fault   |-> FALSE,
          players |-> [i \in DOMAIN players |->
                        [agenda  |-> IF players[i].agenda # None
                                     THEN AgendaName(players[i].agenda[1])
                                     ELSE Undefined,
                         faction |-> FactionName(players[i].faction[1].code),
                         name    |-> players[i].name]]]

\* hasActivePlayer(playerName): no entry ever carries a disconnected flag
hasActivePlayer(playerName) ==
    \/ Has(players, playerName) /\ ~Get(players, playerName).left
    \/ Has(spectators, playerName)

isEmpty == ~\E n \in MemberNames : hasActivePlayer(n)

----------------------------------------------------------------------------
(* The session as a state machine *)

Next ==
    \/ \E pw \in Passwords : NewGame(pw)
    \/ \E u \in Users, pw \in Candidates : Join(u, pw)
    \/ \E u \in Users, pw \in Candidates : Watch(u, pw)
    \/ \E n \in Users : Leave(n)
    \/ \E n \in Users : Disconnect(n)
    \/ \E n \in Users, m \in ChatTexts : Chat(n, m)
    \/ \E n \in Users, d \in DeckIds : SelectDeck(n, d)
    \/ Start

Spec == Init /\ [][Next]_vars

----------------------------------------------------------------------------
(* Properties *)

OwnerFlags == {i \in DOMAIN players : players[i].owner}

LastTemplate == IF messages = <<>> THEN "" ELSE messages[Len(messages)].template

\* A candidate password that is a text and whose digest differs from the stored one
WrongText(pw) == password # None /\ pw # NoPw /\ md5(pw) # password[1]

\* C1: the session never holds more than 2 Player entries, and a join made
\* while 2 Players are present leaves the Player roster as it was.
C1_PlayerCap ==
    /\ [](Len(players) <= 2)
    /\ [][\A u \in Users, pw \in Candidates :
            (Len(players) = 2 /\ last'.op = "join" /\ Join(u, pw)) => players' = players]_vars

\* C1 witness: a join call has returned on a full, unstarted, unprotected
\* session without adding its join announcement.
C1_Witness ==
    /\ Len(players) = 2
    /\ ~started
    /\ password = None
    /\ last.op = "join"
    /\ LastTemplate # "{0} has joined the game"

\* C2 (as claimed): on an unstarted session with at least one Player, exactly
\* one Player entry carries owner = true.
C2_ExactlyOneOwner ==
    (created /\ ~started /\ Len(players) >= 1) => Cardinality(OwnerFlags) = 1

C4_DeckNameOnlyToSelf ==
    \A v \in Viewers :
        \A n \in DOMAIN getSummary(v).players :
            Get(players, n).deck # None =>
                LET fields == DOMAIN getSummary(v).players[n].deck
                IN  /\ "name" \in fields => v = n
                    /\ v # n => fields \subseteq {"selected", "status"}

\* C4 witness: a Player with a bound deck sees its name in the own summary while
\* a second Player and a Spectator are present.
C4_Witness ==
    /\ Len(players) = 2
    /\ spectators # <<>>
    /\ \E i \in DOMAIN players :
          /\ players[i].deck # None
          /\ ~players[i].left
          /\ getSummary(players[i].name).players[players[i].name].deck.name
                = DeckName(players[i].deck[1])

\* C5: getSummary called with no viewer has no messages, whatever the chat log holds.
C5_NoChatWithoutViewer ==
    /\ getSummary(NoViewer).messages = None
    /\ \A v \in Viewers : getSummary(v).messages # None => v # NoViewer

\* C5 witness: the chat log is not empty, the anonymous summary has no messages
\* and a named viewer's summary has the log.
C5_Witness ==
    /\ Len(messages) > 0
    /\ getSummary(NoViewer).messages = None
    /\ getSummary("alice").messages = Some(messages)

\* C6: while the session is not started no summary, for any viewer, reports a
\* faction code or an agenda code for any Player.
C6_NoCodesBeforeStart ==
    \A v \in Viewers :
        \A n \in DOMAIN getSummary(v).players :
            (getSummary(v).players[n].faction # Undefined
                \/ getSummary(v).players[n].agenda # Undefined) => started

\* C6 witness: an unstarted session where selectDeck has bound a faction and an
\* agenda to a Player, whose own summary reports neither.
C6_Witness ==
    /\ ~started
    /\ \E i \in DOMAIN players :
          /\ players[i].faction # None
          /\ players[i].agenda # None
          /\ getSummary(players[i].name).players[players[i].name].faction = Undefined
          /\ getSummary(players[i].name).players[players[i].name].agenda = Undefined

\* C7: in a started session leave(name) for a present Player sets that entry's
\* left flag and keeps it; the roster has the same names in the same order, no
\* other entry changes, and no owner flag and not the session owner change.
C7_StartedLeaveFlags ==
    [][\A n \in Users :
        (started /\ Has(players, n) /\ last'.op = "leave" /\ Leave(n)) =>
            /\ Len(players') = Len(players)
            /\ \A i \in DOMAIN players :
                  players'[i] = IF players[i].name = n
                                THEN [players[i] EXCEPT !.left = TRUE]
                                ELSE players[i]
            /\ owner' = owner]_vars

\* C7 witness: a leave has run on a started session that holds two Player
\* entries, one of them flagged left.
C7_Witness ==
    /\ started
    /\ last.op = "leave"
    /\ Len(players) = 2
    /\ \E i \in DOMAIN players : players[i].left

\* C8 (as claimed): no name is a key of both the Players and the Spectators.
C8_NamesDisjoint == Names(players) \cap Names(spectators) = {}

\* C9: with allowSpectators false every watch call hands the permission error to
\* its callback, returns nothing, and leaves Spectators, Players and the chat
\* log as they were; the Spectators stay empty.
C9_WatchDenied ==
    /\ [](~allowSpectators => spectators = <<>>)
    /\ [][\A u \in Users, pw \in Candidates :
            (~allowSpectators /\ last'.op = "watch" /\ Watch(u, pw)) =>
                /\ last'.cb = Some(JoinNotPermitted)
                /\ last'.ret = Undefined
                /\ UNCHANGED <<players, spectators, messages>>]_vars

\* C9 witness: a watch call on a session without spectators has had its
\* callback invoked with the permission error.
C9_Witness ==
    /\ ~allowSpectators
    /\ last.op = "watch"
    /\ last.cb = Some(JoinNotPermitted)
    /\ spectators = <<>>

\* The session is as it was: rosters, owner and chat log
Untouched == UNCHANGED <<players, spectators, owner, messages>>

\* C10 (as claimed): a join with 2 Players present, or on a started session, or
\* by a blocked requester, and a watch by a blocked requester, change nothing
\* and signal no error, by return value or by callback.
C10_SilentRejection ==
    [][/\ last'.op = "join" =>
            \A u \in Users, pw \in Candidates :
                ((Len(players) = 2 \/ started \/ isUserBlocked(u)) /\ Join(u, pw))
                    => (Untouched /\ last'.ret = Undefined /\ last'.cb = None)
       /\ last'.op = "watch" =>
            \A u \in Users, pw \in Candidates :
                (isUserBlocked(u) /\ Watch(u, pw))
                    => (Untouched /\ last'.ret = Undefined /\ last'.cb = None)]_vars

\* C10 (amended): the join part as claimed; a blocked requester's watch changes
\* nothing and returns nothing, and is silent when the session allows
\* spectators; when it does not, the callback gets the permission error.
C10_SilentRejectionAfterPermission ==
    [][/\ last'.op = "join" =>
            \A u \in Users, pw \in Candidates :
                ((Len(players) = 2 \/ started \/ isUserBlocked(u)) /\ Join(u, pw))
                    => (Untouched /\ last'.ret = Undefined /\ last'.cb = None)
       /\ last'.op = "watch" =>
            \A u \in Users, pw \in Candidates :
                (isUserBlocked(u) /\ Watch(u, pw))
                    => /\ Untouched
                       /\ last'.ret = Undefined
                       /\ last'.cb = IF allowSpectators THEN None
                                      ELSE Some(JoinNotPermitted)]_vars

\* C10 witness: on an unstarted session with one Player a join has returned
\* without a value and without its announcement: the requester was blocked.
C10_Witness ==
    /\ ~started
    /\ Len(players) = 1
    /\ BlockList(owner) # {}
    /\ last.op = "join"
    /\ last.ret = Undefined
    /\ LastTemplate = "{0} has left the game"

\* Everything the session holds
Session == <<owner, players, spectators, password, started, allowSpectators,
             messages, decks>>

\* C11: leave, disconnect and chat with a name that is neither a Player nor a
\* Spectator, and selectDeck with a name that is not a Player (a Spectator's
\* name included), change nothing in the session and return without error.
C11_UnknownNameNoOp ==
    [][/\ last'.op = "leave" =>
            \A n \in Users : (n \notin MemberNames /\ Leave(n))
                => (UNCHANGED Session /\ last'.ret = Undefined)
       /\ last'.op = "disconnect" =>
            \A n \in Users : (n \notin MemberNames /\ Disconnect(n))
                => (UNCHANGED Session /\ last'.ret = Undefined)
       /\ last'.op = "chat" =>
            \A n \in Users, m \in ChatTexts : (n \notin MemberNames /\ Chat(n, m))
                => (UNCHANGED Session /\ last'.ret = Undefined)
       /\ last'.op = "selectDeck" =>
            \A n \in Users, d \in DeckIds : (n \notin Names(players) /\ SelectDeck(n, d))
                => (UNCHANGED Session /\ last'.ret = Undefined)]_vars

\* C11 witness: a leave has returned on an unstarted session that holds a
\* Player and a Spectator without its departure message: the name was unknown.
C11_Witness ==
    /\ ~started
    /\ players # <<>>
    /\ spectators # <<>>
    /\ last.op = "leave"
    /\ last.ret = Undefined
    /\ LastTemplate # "{0} has left the game"

\* C12: on an unstarted session, leave or disconnect of the Player carrying the
\* owner flag while another Player remains makes the first remaining Player the
\* owner, flag and session owner identity both, in that operation; removing a
\* Player without the owner flag leaves the flags and the session owner alone.
C12_Succession ==
    [][last'.op \in {"leave", "disconnect"} =>
        \A n \in Users :
            (~started /\ Has(players, n) /\ (Leave(n) \/ Disconnect(n))) =>
                LET gone      == Get(players, n)
                    remaining == Delete(players, n)
                IN  /\ (gone.owner /\ remaining # <<>>) =>
                          /\ players' = [remaining EXCEPT ![1].owner = TRUE]
                          /\ owner' = remaining[1].name
                    /\ ~gone.owner =>
                          /\ players' = remaining
                          /\ owner' = owner]_vars

\* C12 witness: after the creator's leave the one remaining Player carries the
\* owner flag and is the session owner.
C12_Witness ==
    /\ ~started
    /\ last.op = "leave"
    /\ Len(players) = 1
    /\ players[1].owner
    /\ players[1].name = owner
    /\ owner \notin Creators

\* The candidate passes the session's password check: no password is set, or
\* the candidate is a text with the stored digest
RightPassword(pw) == password = None \/ (pw # NoPw /\ md5(pw) = password[1])

\* C13: a join on an unstarted session with fewer than 2 Players, by a requester
\* who is not blocked, with the right password (any when none is set), stores a
\* Player entry under the requester's name, with owner = false unless the
\* requester is the session owner, appends exactly the join announcement and
\* returns no error.
C13_JoinAdds ==
    [][last'.op = "join" =>
        \A u \in Users, pw \in Candidates :
            (~started /\ Len(players) < 2 /\ ~isUserBlocked(u) /\ RightPassword(pw)
                /\ Join(u, pw)) =>
                    /\ Names(players') = Names(players) \cup {u}
                    /\ Get(players', u).name = u
                    /\ u # owner => ~Get(players', u).owner
                    /\ messages' = Append(messages,
                            [template |-> "{0} has joined the game", args |-> <<u>>])
                    /\ last'.ret = Undefined]_vars

\* C13 witness: on a protected session a join has just announced a second
\* Player, who does not carry the owner flag.
C13_Witness ==
    /\ password # None
    /\ ~started
    /\ last.op = "join"
    /\ Len(players) = 2
    /\ LastTemplate = "{0} has joined the game"
    /\ \E i \in DOMAIN players :
          /\ players[i].name = messages[Len(messages)].args[1]
          /\ ~players[i].owner

\* C14 (as claimed): no call raises a fault, and getSaveState() returns a record
\* listing every Player, also while some Player has not selected a deck.
C14_NoFault ==
    created =>
        /\ last.ret # TypeError
        /\ ~getSaveState.fault
        /\ Len(getSaveState.players) = Len(players)

\* C15 (as claimed): on an unstarted session leave(name) or disconnect(name) of a
\* present Player or Spectator removes every entry under that name, flags no
\* Player as left, and appends exactly one message, the departure text for
\* leave and the disconnected text for disconnect.
C15_UnstartedRemoval ==
    [][last'.op \in {"leave", "disconnect"} =>
        \A n \in Users :
            (~started /\ n \in MemberNames /\ (Leave(n) \/ Disconnect(n))) =>
                /\ n \notin Names(players') \cup Names(spectators')
                /\ \A i \in DOMAIN players' : ~players'[i].left
                /\ messages' = Append(messages,
                        [template |-> IF last'.op = "leave"
                                      THEN "{0} has left the game"
                                      ELSE "{0} has disconnected",
                         args |-> <<n>>])]_vars

\* C16 (as claimed): on a started session disconnect(name) changes no Player
\* entry and removes the Spectator entry under that name whenever there is one,
\* also when the name is a Player's as well; leave(name) removes the Spectator
\* entry under that name whether the session is started or not.
C16_SpectatorRemoved ==
    [][last'.op \in {"leave", "disconnect"} =>
        \A n \in Users :
            /\ (started /\ Disconnect(n)) =>
                  /\ players' = players
                  /\ spectators' = Delete(spectators, n)
            /\ Leave(n) => spectators' = Delete(spectators, n)]_vars

\* C17 (as claimed): after selectDeck(name, deck) for a known Player the bound
\* deck is deck with selected = true, a previously bound other deck has
\* selected = false, the Faction record is {code of deck.faction, 'faction', 0},
\* and the Player has an Agenda record exactly when deck.agenda is present.
C17_BindingFromNewDeck ==
    [][last'.op = "selectDeck" =>
        \A n \in Users, d \in DeckIds :
            (Has(players, n) /\ SelectDeck(n, d)) =>
                LET before == Get(players, n)
                    after  == Get(players', n)
                IN  /\ after.deck = Some(d)
                    /\ decks'[d].selected
                    /\ (before.deck # None /\ before.deck # Some(d))
                          => ~decks'[before.deck[1]].selected
                    /\ after.faction = Some([code |-> DeckFaction(d),
                                              type |-> "faction", strength |-> 0])
                    /\ (after.agenda # None) <=> (DeckAgenda(d) # None)]_vars

\* C18: at most one Player entry carries owner = true, and a Player entry that
\* carries it has the name getSummary reports as the session's owner.
C18_OwnerFlagMatchesOwner ==
    /\ Cardinality(OwnerFlags) <= 1
    /\ \A i \in OwnerFlags :
          \A v \in Viewers : players[i].name = getSummary(v).owner

\* C18 witness: ownership has passed on by a disconnect; the remaining Player
\* carries the flag and is the owner the summary reports.
C18_Witness ==
    /\ last.op = "disconnect"
    /\ owner \notin Creators
    /\ Cardinality(OwnerFlags) = 1
    /\ \A i \in OwnerFlags : players[i].name = getSummary(NoViewer).owner

LeftNames == {players[i].name : i \in {j \in DOMAIN players : players[j].left}}

\* C19, first part: no Player entry is flagged left on an unstarted session, and
\* an entry flagged left stays in the roster, flagged, through every operation.
C19_LeftIsTerminal ==
    /\ [](~started => LeftNames = {})
    /\ [][\A n \in LeftNames : Has(players', n) /\ Get(players', n).left]_vars

\* C19, second part: a Player flagged left is absent from every summary's players.
C19_LeftNotInSummary ==
    \A v \in Viewers : LeftNames \cap DOMAIN getSummary(v).players = {}

\* C19 (as claimed): both parts, and isEmpty does not count a Player flagged
\* left as active.
C19_LeftTerminalAndInactive ==
    /\ C19_LeftIsTerminal
    /\ []C19_LeftNotInSummary
    /\ [](\A n \in LeftNames : ~hasActivePlayer(n))

\* The step appended one message after the existing ones
AppendedOne ==
    /\ Len(messages') = Len(messages) + 1
    /\ SubSeq(messages', 1, Len(messages)) = messages

\* C20: every operation leaves the chat log as it was or appends exactly one
\* message after the existing ones; it appends exactly on a join or watch that
\* adds its member, a chat by a member, and a leave or disconnect of a member
\* on an unstarted session.
C20_AppendOnlyLog ==
    [][/\ messages' = messages \/ AppendedOne
       /\ last'.op = "join" =>
            \A u \in Users, pw \in Candidates :
                \/ AppendedOne <=> (~started /\ Len(players) < 2
                                      /\ ~isUserBlocked(u) /\ RightPassword(pw))
                \/ ~Join(u, pw)
       /\ last'.op = "watch" =>
            \A u \in Users, pw \in Candidates :
                \/ AppendedOne <=> (allowSpectators /\ ~isUserBlocked(u)
                                      /\ RightPassword(pw))
                \/ ~Watch(u, pw)
       /\ last'.op = "chat" =>
            \A n \in Users, m \in ChatTexts :
                \/ AppendedOne <=> n \in MemberNames
                \/ ~Chat(n, m)
       /\ last'.op \in {"leave", "disconnect"} =>
            \A n \in Users :
                \/ AppendedOne <=> (n \in MemberNames /\ ~started)
                \/ ~(Leave(n) \/ Disconnect(n))
       /\ last'.op \in {"selectDeck", "start", "newGame"} => messages' = messages]_vars

\* C20 witness: a chat message stands after an earlier join announcement.
C20_Witness ==
    /\ Len(messages) = 2
    /\ last.op = "chat"
    /\ messages[1].template = "{0} has joined the game"
    /\ messages[2].template = "{0} {1}"

====
